---- MODULE Spec2Model ----
(***************************************************************************)
(* selfextract: a stub binary that either builds a self-extracting archive *)
(* (create) or, when it carries a payload, extracts it and runs a command  *)
(* (parseSelf, extract).  Files are sequences of bytes, directories are    *)
(* functions from relative paths (sequences of names) to nodes.            *)
(*                                                                         *)
(* Sizes are scaled: the read block, the boundary, the key and the length  *)
(* field keep their order (blockSize > boundary > key >= length field is   *)
(* not needed by the code) but are a few bytes long, so that a marker that *)
(* straddles two read blocks is within reach of the checker.               *)
(***************************************************************************)
EXTENDS Integers, Sequences, FiniteSets, TLC

\* ------------------------------------------------------------------ bounds

\* longest stub (the running executable without payload), in bytes
MaxStub == 10
\* longest list of input paths given to the builder
MaxFiles == 2

\* --------------------------------------------------------- program constants

\* main.go:98, scaled from 128*1024
scanBlockSize == 8
\* main.go:81, scaled from 16
keyLength == 2
\* main.go:95, scaled from 100e6: declared, and used nowhere in the code
maxBoundaryOffset == 8
\* sha512 digest length (main.go:77), scaled from 64
boundaryLength == 4
\* the length field, 8 bytes in the code (main.go:150, 157), scaled to 2
sizeLength == 2

\* ------------------------------------------------------------- byte strings

Min(a, b) == IF a < b THEN a ELSE b

Zeros(n) == [i \in 1..n |-> 0]

\* s[from..to) with 0-based offsets, as a Go slice s[from:to]
Slice(s, from, to) == SubSeq(s, from + 1, to)

\* bytes.Index: 0-based offset of the first occurrence of sep in s, or -1
Index(s, sep) ==
    LET hits == {i \in 0..(Len(s) - Len(sep)) : Slice(s, i, i + Len(sep)) = sep}
    IN IF hits = {} THEN -1 ELSE CHOOSE i \in hits : \A j \in hits : i <= j

\* binary.LittleEndian.PutUint64 on the scaled length field
PutUint(n) == [i \in 1..sizeLength |-> (n \div (256 ^ (i - 1))) % 256]

\* binary.LittleEndian.Uint64 on the scaled length field
Uint(b) == IF Len(b) = 0 THEN 0 ELSE b[1] + 256 * (IF Len(b) > 1 THEN b[2] ELSE 0)

\* the first bytes of sha512("boundary")
generateBoundary == <<41, 160, 46, 217>>

\* the placeholder "\xef\xbe\xad\xde..." written before the payload
placeholder == <<239, 190>>

\* the low half of the sentinel only, as 0xdeadbeef is of 0xdeadbeefdeadbeef
sentinel_LowHalf == placeholder[1]

\* 0xdeadbeefdeadbeef on the scaled length field: the placeholder read back
sentinel == Uint(placeholder)

\* the keys rand.Read can produce (two of them)
Keys == {<<17, 34>>, <<51, 68>>}

\* ------------------------------------------------------ the files archived

\* A path is a sequence of names, relative to the directory it lives in;
\* <<>> is ".".
Dir(p) == SubSeq(p, 1, Len(p) - 1)

Base(p) == p[Len(p)]

IsUnder(p, d) == Len(p) > Len(d) /\ SubSeq(p, 1, Len(d)) = d

\* the names in byte order, as os.ReadDir and fs.ReadDir sort them
NameOrder == <<".env", ".selfextract.key", "d", "f", "l", "selfextract_cmdline">>

NameRank(n) == CHOOSE i \in 1..Len(NameOrder) : NameOrder[i] = n

RECURSIVE SortByName(_)
SortByName(S) ==
    IF S = {} THEN <<>>
    ELSE LET m == CHOOSE x \in S : \A y \in S : NameRank(Base(x)) <= NameRank(Base(y))
         IN <<m>> \o SortByName(S \ {m})

RECURSIVE Flatten(_)
Flatten(ss) == IF ss = <<>> THEN <<>> ELSE Head(ss) \o Flatten(Tail(ss))

RegNode(perm, data) == [type |-> "reg", perm |-> perm, data |-> data, target |-> <<>>]
DirNode(perm) == [type |-> "dir", perm |-> perm, data |-> <<>>, target |-> <<>>]
LinkNode(target) == [type |-> "symlink", perm |-> 511, data |-> <<>>, target |-> target]

\* the contents a command-line file can have: "p", "" and an unbalanced quote
CmdTexts == {<<112>>, <<>>, <<39>>}

\* The base directory the builder is pointed at (-C): a command-line file,
\* a hidden file, a directory with mode 0700 holding a read-only file and a
\* symlink to it.
BaseDir(cmd) ==
    (<<"selfextract_cmdline">> :> RegNode(420, cmd)) @@
    (<<".env">> :> RegNode(384, <<1, 2>>)) @@
    (<<"d">> :> DirNode(448)) @@
    (<<"d", "f">> :> RegNode(292, <<7>>)) @@
    (<<"d", "l">> :> LinkNode(<<"f">>))

\* the paths an input list can name: "." and every entry of the base directory
InputPaths == {<<>>, <<"selfextract_cmdline">>, <<".env">>, <<"d">>, <<"d", "f">>, <<"d", "l">>}

RECURSIVE SeqsUpTo(_, _)
SeqsUpTo(S, n) ==
    IF n = 0 THEN {<<>>}
    ELSE LET shorter == SeqsUpTo(S, n - 1)
         IN shorter \cup {Append(s, x) : s \in {t \in shorter : Len(t) = n - 1}, x \in S}

InputLists == SeqsUpTo(InputPaths, MaxFiles)

\* os.Lstat, with "." the directory itself
Lstat(tree, p) == IF p = <<>> THEN DirNode(493) ELSE tree[p]

\* os.Stat: a symlink is followed (the trees hold no chain of links)
Stat(tree, p) ==
    LET n == Lstat(tree, p)
    IN IF n.type = "symlink" THEN Lstat(tree, Dir(p) \o n.target) ELSE n

\* ReadDir: the entries directly in directory p, sorted by name
ReadDir(tree, p) == SortByName({q \in DOMAIN tree : Len(q) = Len(p) + 1 /\ Dir(q) = p})

\* The tar header (and content) create writes for one walked entry.
Header(path, node) ==
    [name |-> path,
     typeflag |-> node.type,
     perm |-> node.perm,
     size |-> IF node.type = "reg" THEN Len(node.data) ELSE 0,
     linkname |-> IF node.type = "symlink" THEN node.target ELSE <<>>,
     data |-> IF node.type = "reg" THEN node.data ELSE <<>>]

\* walkDir below the root: the callback on the entry, then on its children
RECURSIVE WalkFrom(_, _, _)
WalkFrom(tree, path, node) ==
    (IF path = <<>> THEN <<>> ELSE <<Header(path, node)>>) \o
    (IF node.type = "dir"
     THEN LET kids == ReadDir(tree, path)
          IN Flatten([i \in 1..Len(kids) |-> WalkFrom(tree, kids[i], Lstat(tree, kids[i]))])
     ELSE <<>>)

\* fs.WalkDir: the root is stat-ed (a symlink named as input is followed),
\* the entries below it are not.
WalkDir(tree, root) == WalkFrom(tree, root, Stat(tree, root))

\* the entries create writes for a list of input paths, in order
Walk(tree, files) == Flatten([i \in 1..Len(files) |-> WalkDir(tree, files[i])])

\* The bytes one entry adds to the compressed tar stream: tar and zstd are
\* an external codec, of which only the length of the stream matters to the
\* envelope; an entry is a two-byte header and its content.
TarBytes(hdr) ==
    <<(CASE hdr.typeflag = "reg" -> 48 [] hdr.typeflag = "dir" -> 53 [] OTHER -> 50),
      hdr.size>> \o hdr.data

\* the end-of-archive record written by closing the tar and zstd writers
TarEnd == <<0>>

\* ------------------------------------------------------------ archives

\* The archives that are run: each was built by create from a base
\* directory and a list of input paths, and carries its own random key.
Archives ==
    <<[key |-> <<17, 34>>,  cmd |-> <<112>>, files |-> << <<>> >>],
      [key |-> <<51, 68>>,  cmd |-> <<>>,    files |-> << <<"selfextract_cmdline">> >>],
      [key |-> <<85, 102>>, cmd |-> <<112>>, files |-> << <<"d", "f">>, <<"d">> >>],
      [key |-> <<119, 136>>, cmd |-> <<112>>, files |-> << <<"d">> >>],
      [key |-> <<153, 170>>, cmd |-> <<39>>,  files |-> << <<"selfextract_cmdline">>, <<"d", "l">> >>]>>

ArchiveIds == DOMAIN Archives

\* the tar entries of archive k, as its builder wrote them
Payload(k) == Walk(BaseDir(Archives[k].cmd), Archives[k].files)

\* --------------------------------------------------- the extraction dir

keyFileName == <<".selfextract.key">>

cmdlineName == <<"selfextract_cmdline">>

EmptyTree == [q \in {} |-> DirNode(493)]

Put(tree, p, node) == [q \in DOMAIN tree \cup {p} |-> IF q = p THEN node ELSE tree[q]]

\* a removal that leaves a directory that is not empty (os.Remove, its
\* error dropped)
RemoveAll_Remove(tree, p) ==
    IF \E r \in DOMAIN tree : IsUnder(r, p) THEN tree
    ELSE [q \in DOMAIN tree \ {p} |-> tree[q]]

\* os.RemoveAll of one entry of a directory
RemoveAll(tree, p) == [q \in {r \in DOMAIN tree : r # p /\ ~IsUnder(r, p)} |-> tree[q]]

\* the directories above p, and p itself, below the extraction directory
Chain(p) == {SubSeq(p, 1, i) : i \in 1..Len(p)}

IsDirAt(tree, p) == p = <<>> \/ (p \in DOMAIN tree /\ tree[p].type = "dir")

\* os.MkdirAll(dir, 0755) succeeds unless something on the way is no directory
CanMkdirAll(tree, d) == \A a \in Chain(d) : a \notin DOMAIN tree \/ tree[a].type = "dir"

MkdirAll(tree, d) ==
    [q \in DOMAIN tree \cup Chain(d) |-> IF q \in DOMAIN tree THEN tree[q] ELSE DirNode(493)]

\* where os.Create lands: a symlink at the path is followed
CreateTarget(tree, p) ==
    IF p \in DOMAIN tree /\ tree[p].type = "symlink" THEN Dir(p) \o tree[p].target ELSE p

\* os.Create succeeds unless the target is a directory or has no parent
CanCreate(tree, p) ==
    LET t == CreateTarget(tree, p)
    IN /\ IsDirAt(tree, Dir(t))
       /\ ~(t \in DOMAIN tree /\ tree[t].type # "reg")

\* os.Mkdir and os.Symlink need a free name in an existing directory
CanMake(tree, p) == p \notin DOMAIN tree /\ IsDirAt(tree, Dir(p))

\* The faults the environment can inject into the extraction of one entry:
\* a failing os.MkdirAll or os.Create, io.Copy, Chmod, os.Mkdir, os.Symlink.
EntryFaults(hdr) ==
    CASE hdr.typeflag = "reg" -> {"none", "create", "copy", "chmod"}
      [] hdr.typeflag = "dir" -> {"none", "mkdir"}
      [] hdr.typeflag = "symlink" -> {"none", "symlink"}
      [] OTHER -> {"none"}

\* createFile (extract.go:245-256) and the regular-file case of extract
\* (extract.go:291-308): parents are made, the file is created or truncated,
\* the content is copied, the mode is set.  ok is FALSE where the code calls
\* cleanupAndDie; tree is the directory at that point.
ExtractReg(tree, hdr, fault) ==
    LET path == hdr.name
        made == IF CanMkdirAll(tree, Dir(path)) THEN MkdirAll(tree, Dir(path)) ELSE tree
        t == CreateTarget(made, path)
        perm0 == IF t \in DOMAIN made THEN made[t].perm ELSE 420
    IN IF ~CanMkdirAll(tree, Dir(path)) \/ ~CanCreate(made, path) \/ fault = "create"
       THEN [ok |-> FALSE, tree |-> IF fault = "create" THEN tree ELSE made]
       ELSE IF fault = "copy"
       THEN [ok |-> FALSE, tree |-> Put(made, t, RegNode(perm0, <<>>))]
       ELSE IF fault = "chmod"
       THEN [ok |-> FALSE, tree |-> Put(made, t, RegNode(perm0, hdr.data))]
       ELSE [ok |-> TRUE, tree |-> Put(made, t, RegNode(hdr.perm, hdr.data))]

\* the directory case (extract.go:309-318): os.Mkdir with mode 0755
ExtractDir(tree, hdr, fault) ==
    IF ~CanMake(tree, hdr.name) \/ fault = "mkdir"
    THEN [ok |-> FALSE, tree |-> tree]
    ELSE [ok |-> TRUE, tree |-> Put(tree, hdr.name, DirNode(493))]

\* the symlink case (extract.go:319-324)
ExtractSymlink(tree, hdr, fault) ==
    IF ~CanMake(tree, hdr.name) \/ fault = "symlink"
    THEN [ok |-> FALSE, tree |-> tree]
    ELSE [ok |-> TRUE, tree |-> Put(tree, hdr.name, LinkNode(hdr.linkname))]

\* the switch on the entry's type (extract.go:290-327)
ExtractOne(tree, hdr, fault) ==
    CASE hdr.typeflag = "reg" -> ExtractReg(tree, hdr, fault)
      [] hdr.typeflag = "dir" -> ExtractDir(tree, hdr, fault)
      [] hdr.typeflag = "symlink" -> ExtractSymlink(tree, hdr, fault)
      [] OTHER -> [ok |-> FALSE, tree |-> tree]

\* hex.EncodeToString, as ASCII bytes
HexDigit(d) == IF d < 10 THEN 48 + d ELSE 87 + d

EncodeToString(b) ==
    [i \in 1..(2 * Len(b)) |->
        IF i % 2 = 1 THEN HexDigit(b[(i + 1) \div 2] \div 16) ELSE HexDigit(b[i \div 2] % 16)]

IsSpace(c) == c \in {9, 10, 11, 12, 13, 32}

\* strings.TrimSpace
RECURSIVE TrimSpace(_)
TrimSpace(t) ==
    IF t = <<>> THEN t
    ELSE IF IsSpace(Head(t)) THEN TrimSpace(Tail(t))
    ELSE IF IsSpace(t[Len(t)]) THEN TrimSpace(SubSeq(t, 1, Len(t) - 1))
    ELSE t

\* shlex.Split, for command lines of letters, spaces and single quotes: an
\* unbalanced quote is an error, else the count of words.
ShlexSplit(t) ==
    LET quotes == Cardinality({i \in 1..Len(t) : t[i] = 39})
        starts == {i \in 1..Len(t) : ~IsSpace(t[i]) /\ (i = 1 \/ IsSpace(t[i - 1]))}
    IN [err |-> quotes % 2 = 1, args |-> Cardinality(starts)]

\* -------------------------------------------------------- checkExecutable

\* A path string is a sequence of characters.
Slash == "/"

HasPrefix(t, pre) == Len(pre) <= Len(t) /\ SubSeq(t, 1, Len(pre)) = pre

HasSuffix(t, c) == Len(t) > 0 /\ t[Len(t)] = c

\* The mount tables /proc/mounts can hold: everything executable; /tmp
\* mounted noexec; everything noexec.
MountTables ==
    << << [mountpoint |-> <<"/">>, options |-> <<"rw">>] >>,
       << [mountpoint |-> <<"/">>, options |-> <<"rw">>],
          [mountpoint |-> <<"/", "t">>, options |-> <<"rw", "noexec">>] >>,
       << [mountpoint |-> <<"/">>, options |-> <<"rw", "noexec">>] >> >>

\* os.TempDir(), the directory of the executable, the value of SELFEXTRACT_DIR
TempDir == <<"/", "t">>
ExeDir == <<"/", "o">>
EnvDirPath == <<"/", "u">>

Contains(list, x) == \E i \in 1..Len(list) : list[i] = x

\* a scan in which the last entry with a matching prefix wins, whatever
\* its length
RECURSIVE MountScan_LastWins(_, _, _, _)
MountScan_LastWins(entries, path, mntp, noexec) ==
    IF entries = <<>> THEN noexec
    ELSE LET e == Head(entries)
             slashed == IF HasSuffix(e.mountpoint, Slash)
                        THEN e.mountpoint ELSE Append(e.mountpoint, Slash)
         IN IF Len(e.mountpoint) > Len(path)
            THEN MountScan_LastWins(Tail(entries), path, mntp, noexec)
            ELSE IF e.mountpoint = path
            THEN Contains(e.options, "noexec")
            ELSE IF HasPrefix(path, slashed)
            THEN MountScan_LastWins(Tail(entries), path, slashed, Contains(e.options, "noexec"))
            ELSE MountScan_LastWins(Tail(entries), path, mntp, noexec)

\* The loop over the mount entries (extract.go:53-81): noexec of the entry
\* with the longest mount point that is the path or a prefix of it; an
\* exact match ends the loop.
RECURSIVE MountScan(_, _, _, _)
MountScan(entries, path, mntp, noexec) ==
    IF entries = <<>> THEN noexec
    ELSE LET e == Head(entries)
             slashed == IF HasSuffix(e.mountpoint, Slash)
                        THEN e.mountpoint ELSE Append(e.mountpoint, Slash)
         IN IF Len(e.mountpoint) > Len(path)
            THEN MountScan(Tail(entries), path, mntp, noexec)
            ELSE IF e.mountpoint = path
            THEN Contains(e.options, "noexec")
            ELSE IF HasPrefix(path, slashed) /\ Len(mntp) < Len(slashed)
            THEN MountScan(Tail(entries), path, slashed, Contains(e.options, "noexec"))
            ELSE MountScan(Tail(entries), path, mntp, noexec)

checkExecutable(path, table) == ~MountScan(table, path, <<>>, FALSE)

\* a generateExtractDir that falls back on the executable's directory
\* without probing it
generateExtractDir_NoProbe(table) ==
    IF checkExecutable(TempDir, table) THEN "tmp" ELSE "exe"

\* generateExtractDir (extract.go:143-158): where os.MkdirTemp is called,
\* "tmp" under the temp directory, "exe" under the executable's directory,
\* or "" when the run dies for want of a directory
generateExtractDir(table) ==
    IF checkExecutable(TempDir, table) THEN "tmp"
    ELSE IF checkExecutable(ExeDir, table) THEN "exe"
    ELSE ""

\* a comparison of the raw key, not of its hex encoding, with the key file
KeyMatches_Raw(key, keyData) == key = TrimSpace(keyData)

\* the comparison of the key with the key file (extract.go:217)
KeyMatches(key, keyData) == EncodeToString(key) = TrimSpace(keyData)

\* ------------------------------------------------------------------- state

VARIABLES
    \* the builder and the scanner (main.go, create)
    stub,       \* the bytes of the stub executable
    self,       \* the bytes of the executable opened by openSelf
    out,        \* the bytes of the output file of create
    outPerm,    \* its permission bits, 0 before it is created
    cst,        \* the builder: "idle", "running", "done", "died" (fatal) or "killed"
    cpc,        \* create's position: the step it is at, or stopped at
    pending,    \* the tar entries create has still to write
    offset,     \* create's offset: where the payload starts in out
    payload_end,\* create's payload_end: where the payload ends in out
    failed,     \* an I/O call of create has failed (its error seen or not)
    spc,        \* parseSelf's position
    rpos,       \* the read position of self
    bdyOff,     \* parseSelf's bdyOff
    parsed,     \* what parseSelf returned
    phase,      \* "builder": self is the stub; "output": self is create's output
    \* the runs of archives (extract.go)
    disk,       \* the directories: SELFEXTRACT_DIR and the generated ones
    se,         \* per process: the selfExtractor, its goroutines, its exit
    done,       \* the archive whose extraction into SELFEXTRACT_DIR was
                \* completed last and not touched since, or 0
    \* a call of checkExecutable on its own
    probeTable, \* the entries of /proc/mounts
    probePath,  \* the path probed
    probeResult \* "none" before the call, then "true" or "false": what
                \* checkExecutable returned

buildVars == <<stub, self, out, outPerm, cst, cpc, pending, offset, payload_end, failed>>
scanVars == <<spc, rpos, bdyOff, parsed, phase>>
runVars == <<disk, se, done>>
probeVars == <<probeTable, probePath, probeResult>>

\* --------------------------------------------------------------- the runs

Procs == {1, 2}

\* the directory slots: SELFEXTRACT_DIR, and the directory os.MkdirTemp
\* makes under the temp directory or under the executable's directory
Slots == {"user", "tmp", "exe"}

NoDir == [exists |-> FALSE, isdir |-> FALSE, tree |-> EmptyTree]

DirOf(tree) == [exists |-> TRUE, isdir |-> TRUE, tree |-> tree]

\* a process that is not running
IdleProc ==
    [pc |-> "idle",            \* the main flow: prepare, wipe, extract, wait, cleanup, exited
     arch |-> 0,               \* the archive run: se.payload and se.key
     envDir |-> FALSE,         \* SELFEXTRACT_DIR is set
     mounts |-> 0,             \* the mount table of the machine
     extractDir |-> "",        \* se.extractDir, a slot
     skipExtract |-> FALSE,    \* se.skipExtract
     tempDir |-> FALSE,        \* se.tempDir
     next |-> 0,               \* the next tar entry of the payload
     todo |-> <<>>,            \* cleanupDir: the entries still to remove
     then |-> "",              \* cleanupDir: called by prepareExtractDir or cleanupAndDie
     sig |-> "off",            \* the signal goroutine: wait, grace, send, sent
     st |-> "off",             \* the startup goroutine: start, child, send, sent
     code |-> 0,               \* what the startup goroutine sends
     exit |-> 0,               \* what the main flow received from se.exitCode
     status |-> 0,             \* the exit status of the process
     how |-> "",               \* exited by "exit" (os.Exit), "fatal" (die) or "panic"
     diedAt |-> "",            \* where die was called
     ran |-> "",               \* what became of the command line
     from |-> "",              \* whose send the main flow received
     recvs |-> 0,              \* how many times the main flow received
     graced |-> FALSE,         \* the signal goroutine has slept its grace period
     hit |-> FALSE,            \* started on a completed extraction of this archive
     mismatch |-> FALSE,       \* found a key file of another archive
     startEmpty |-> FALSE,     \* started on an empty or missing directory
     startDir |-> NoDir,       \* SELFEXTRACT_DIR when the run started
     faulted |-> FALSE,        \* an I/O fault was injected into this run
     cleanFailed |-> FALSE,    \* a removal failed in this run
     wrote |-> FALSE,          \* extraction has written into the directory
     extracted |-> FALSE]      \* createKeyFile has returned

Die(r, where) ==
    [r EXCEPT !.pc = "exited", !.status = 1, !.how = "fatal", !.diedAt = where]

KeyOf(k) == Archives[k].key

TreeOf(slot) == disk[slot].tree

\* the directory holds a key file with this content
HasKey(tree, text) ==
    keyFileName \in DOMAIN tree /\ tree[keyFileName].type = "reg" /\ tree[keyFileName].data = text

\* main.go:30-38, extract.go:88-94: an executable with payload is started,
\* parseSelf returns the payload and the key, setupSignals starts the
\* signal goroutine.
StartRun(p) ==
    /\ se[p].pc = "idle"
    /\ \E k \in ArchiveIds, e \in BOOLEAN, m \in DOMAIN MountTables :
        se' = [se EXCEPT ![p] =
                [IdleProc EXCEPT !.pc = "prepare", !.arch = k, !.envDir = e, !.mounts = m,
                                 !.sig = "wait",
                                 !.hit = e /\ done = k,
                                 !.startDir = IF e THEN disk["user"] ELSE NoDir,
                                 !.startEmpty = ~e \/ ~disk["user"].exists
                                                \/ (disk["user"].isdir /\ TreeOf("user") = EmptyTree)]]
    /\ UNCHANGED <<disk, done>>
    /\ UNCHANGED <<buildVars, scanVars, probeVars>>

\* generateExtractDir (extract.go:143-158) and the branch of
\* prepareExtractDir that calls it (extract.go:163-171)
PrepareTemp(p) ==
    /\ se[p].pc = "prepare" /\ ~se[p].envDir
    /\ LET r == se[p]
           table == MountTables[r.mounts]
           slot == generateExtractDir(table)
       IN \/ /\ slot # ""
             /\ disk' = [disk EXCEPT ![slot] = DirOf(EmptyTree)]
             /\ se' = [se EXCEPT ![p] = [r EXCEPT !.extractDir = slot, !.tempDir = TRUE,
                                                  !.pc = "extract", !.next = 1]]
          \/ /\ slot # ""
             /\ se' = [se EXCEPT ![p] = Die([r EXCEPT !.faulted = TRUE], "prepare")]
             /\ UNCHANGED disk
          \/ /\ slot = ""
             /\ se' = [se EXCEPT ![p] = Die(r, "prepare")]
             /\ UNCHANGED disk
    /\ UNCHANGED done
    /\ UNCHANGED <<buildVars, scanVars, probeVars>>

\* a prepareExtractDir that cleans a directory it finds not empty, key
\* file or none
PrepareUser_WipesUnkeyed(p) ==
    /\ se[p].pc = "prepare" /\ se[p].envDir
    /\ LET r == [se[p] EXCEPT !.extractDir = "user"]
           d == disk["user"]
           keyFile == d.tree[keyFileName]
       IN \/ /\ ~d.exists
             /\ disk' = [disk EXCEPT !["user"] = DirOf(EmptyTree)]
             /\ se' = [se EXCEPT ![p] = [r EXCEPT !.pc = "extract", !.next = 1]]
          \/ /\ d.exists /\ d.isdir /\ d.tree = EmptyTree
             /\ se' = [se EXCEPT ![p] = [r EXCEPT !.pc = "extract", !.next = 1]]
             /\ UNCHANGED disk
          \/ /\ d.exists /\ ~d.isdir
             /\ se' = [se EXCEPT ![p] = Die(r, "prepare")]
             /\ UNCHANGED disk
          \/ /\ d.exists /\ d.isdir /\ keyFileName \in DOMAIN d.tree
             /\ KeyMatches(KeyOf(r.arch), keyFile.data)
             /\ se' = [se EXCEPT ![p] = [r EXCEPT !.skipExtract = TRUE, !.pc = "extract", !.next = 1]]
             /\ UNCHANGED disk
          \/ /\ d.exists /\ d.isdir /\ d.tree # EmptyTree
             /\ keyFileName \in DOMAIN d.tree => ~KeyMatches(KeyOf(r.arch), keyFile.data)
             /\ se' = [se EXCEPT ![p] = [r EXCEPT !.mismatch = keyFileName \in DOMAIN d.tree,
                                                  !.pc = "wipe", !.then = "extract",
                                                  !.todo = ReadDir(d.tree, <<>>), !.next = 1]]
             /\ UNCHANGED disk
          \/ /\ se' = [se EXCEPT ![p] = Die([r EXCEPT !.faulted = TRUE], "prepare")]
             /\ UNCHANGED disk
    /\ UNCHANGED done
    /\ UNCHANGED <<buildVars, scanVars, probeVars>>

\* prepareExtractDir with SELFEXTRACT_DIR set (extract.go:173-228), up to
\* the call of cleanupDir
PrepareUser(p) ==
    /\ se[p].pc = "prepare" /\ se[p].envDir
    /\ LET r == [se[p] EXCEPT !.extractDir = "user"]
           d == disk["user"]
           keyFile == d.tree[keyFileName]
       IN \/ /\ ~d.exists
             /\ disk' = [disk EXCEPT !["user"] = DirOf(EmptyTree)]
             /\ se' = [se EXCEPT ![p] = [r EXCEPT !.pc = "extract", !.next = 1]]
          \/ /\ d.exists /\ d.isdir /\ d.tree = EmptyTree
             /\ se' = [se EXCEPT ![p] = [r EXCEPT !.pc = "extract", !.next = 1]]
             /\ UNCHANGED disk
          \/ /\ d.exists /\ (~d.isdir \/ (d.tree # EmptyTree /\ keyFileName \notin DOMAIN d.tree))
             /\ se' = [se EXCEPT ![p] = Die(r, "prepare")]
             /\ UNCHANGED disk
          \/ /\ d.exists /\ d.isdir /\ keyFileName \in DOMAIN d.tree
             /\ KeyMatches(KeyOf(r.arch), keyFile.data)
             /\ se' = [se EXCEPT ![p] = [r EXCEPT !.skipExtract = TRUE, !.pc = "extract", !.next = 1]]
             /\ UNCHANGED disk
          \/ /\ d.exists /\ d.isdir /\ keyFileName \in DOMAIN d.tree
             /\ ~KeyMatches(KeyOf(r.arch), keyFile.data)
             /\ se' = [se EXCEPT ![p] = [r EXCEPT !.mismatch = TRUE, !.pc = "wipe", !.then = "extract",
                                                  !.todo = ReadDir(d.tree, <<>>), !.next = 1]]
             /\ UNCHANGED disk
          \/ \* MkdirAll, ReadDir, Open or ReadAll fails
             /\ se' = [se EXCEPT ![p] = Die([r EXCEPT !.faulted = TRUE], "prepare")]
             /\ UNCHANGED disk
    /\ UNCHANGED done
    /\ UNCHANGED <<buildVars, scanVars, probeVars>>

\* where cleanupDir goes when its loop is over
AfterCleanup(r) ==
    IF r.then = "extract" THEN [r EXCEPT !.pc = "extract", !.todo = <<>>]
    ELSE Die([r EXCEPT !.todo = <<>>], "extract")

\* One turn of the loop of cleanupDir (extract.go:236-241): the next entry
\* is removed with all below it, or the removal fails and the caller dies
\* (extract.go:224-227, 258-262).
CleanupStep(p) ==
    /\ se[p].pc = "wipe"
    /\ LET r == se[p]
           slot == r.extractDir
           rest == [r EXCEPT !.todo = Tail(r.todo)]
       IN \/ /\ disk' = [disk EXCEPT ![slot].tree = RemoveAll(@, Head(r.todo))]
             /\ se' = [se EXCEPT ![p] = IF Tail(r.todo) = <<>> THEN AfterCleanup(rest) ELSE rest]
             /\ done' = IF slot = "user" THEN 0 ELSE done
          \/ /\ se' = [se EXCEPT ![p] =
                        Die([r EXCEPT !.faulted = TRUE, !.cleanFailed = TRUE],
                            IF r.then = "extract" THEN "prepare" ELSE "extract")]
             /\ UNCHANGED <<disk, done>>
    /\ UNCHANGED <<buildVars, scanVars, probeVars>>

\* extract.go:269-272: nothing is extracted on a cache hit; the main flow
\* starts the startup goroutine and waits (extract.go:97-98)
ExtractSkip(p) ==
    /\ se[p].pc = "extract" /\ se[p].skipExtract
    /\ se' = [se EXCEPT ![p].pc = "wait", ![p].st = "start"]
    /\ UNCHANGED <<disk, done>>
    /\ UNCHANGED <<buildVars, scanVars, probeVars>>

\* cleanupAndDie (extract.go:258-264): cleanupDir, then die
CleanupAndDie(r, tree) ==
    IF ReadDir(tree, <<>>) = <<>> THEN Die(r, "extract")
    ELSE [r EXCEPT !.pc = "wipe", !.then = "die", !.todo = ReadDir(tree, <<>>)]

\* One turn of the tar loop (extract.go:276-328) on an entry.
ExtractEntry(p) ==
    /\ se[p].pc = "extract" /\ ~se[p].skipExtract
    /\ se[p].next <= Len(Payload(se[p].arch))
    /\ LET r == se[p]
           slot == r.extractDir
           hdr == Payload(r.arch)[r.next]
       IN \E fault \in EntryFaults(hdr) :
            LET res == ExtractOne(TreeOf(slot), hdr, fault)
                r2 == [r EXCEPT !.wrote = @ \/ res.tree # TreeOf(slot),
                                !.faulted = @ \/ fault # "none"]
            IN /\ disk' = [disk EXCEPT ![slot].tree = res.tree]
               /\ se' = [se EXCEPT ![p] =
                            IF res.ok THEN [r2 EXCEPT !.next = @ + 1]
                            ELSE CleanupAndDie(r2, res.tree)]
    /\ done' = IF se[p].extractDir = "user" THEN 0 ELSE done
    /\ UNCHANGED <<buildVars, scanVars, probeVars>>

\* zstd.NewReader or tarRdr.Next fails (extract.go:126-129, 281-283): die,
\* without cleanupAndDie
ExtractTarError(p) ==
    /\ se[p].pc = "extract" /\ ~se[p].skipExtract
    /\ se' = [se EXCEPT ![p] = Die([se[p] EXCEPT !.faulted = TRUE], "tar")]
    /\ UNCHANGED <<disk, done>>
    /\ UNCHANGED <<buildVars, scanVars, probeVars>>

KeyFileFaults == {"none", "create", "write", "close"}

\* The end of the tar stream: createKeyFile (extract.go:330, 333-346), and
\* then the startup goroutine (extract.go:97-98).
CreateKeyFile(p) ==
    /\ se[p].pc = "extract" /\ ~se[p].skipExtract
    /\ se[p].next > Len(Payload(se[p].arch))
    /\ LET r == se[p]
           slot == r.extractDir
           text == EncodeToString(KeyOf(r.arch))
       IN \E fault \in KeyFileFaults :
            /\ disk' = [disk EXCEPT ![slot].tree =
                          CASE fault = "create" -> @
                            [] fault = "write" -> Put(@, keyFileName, RegNode(420, <<>>))
                            [] OTHER -> Put(@, keyFileName, RegNode(420, text))]
            /\ se' = [se EXCEPT ![p] =
                         IF fault = "none"
                         THEN [r EXCEPT !.pc = "wait", !.st = "start", !.extracted = TRUE]
                         ELSE Die([r EXCEPT !.faulted = TRUE], "keyfile")]
            /\ done' = IF slot # "user" THEN done
                       ELSE IF fault \in {"none", "close"} THEN r.arch ELSE 0
    /\ UNCHANGED <<buildVars, scanVars, probeVars>>

\* ------------------------------------------------------------ lifecycle

\* an interrupt, abort or quit signal reaches the signal goroutine
\* (extract.go:112-117)
Signal(p) ==
    /\ se[p].pc \notin {"idle", "exited"} /\ se[p].sig = "wait"
    /\ se' = [se EXCEPT ![p].sig = "grace"]
    /\ UNCHANGED <<disk, done>>
    /\ UNCHANGED <<buildVars, scanVars, probeVars>>

\* a signal goroutine that never gets to its send
GraceOver_Never(p) ==
    /\ se[p].pc \notin {"idle", "exited"} /\ se[p].sig = "grace"
    /\ UNCHANGED <<disk, done, se>>
    /\ UNCHANGED <<buildVars, scanVars, probeVars>>

\* the grace period is over (extract.go:118-121): the goroutine sends 2
GraceOver(p) ==
    /\ se[p].pc \notin {"idle", "exited"} /\ se[p].sig = "grace"
    /\ se' = [se EXCEPT ![p].sig = "send", ![p].graced = TRUE]
    /\ UNCHANGED <<disk, done>>
    /\ UNCHANGED <<buildVars, scanVars, probeVars>>

\* the exit codes of a child, and -1: ExitCode() of a child killed by a signal
ChildCodes == {0, 7, -1}

\* startup and runCmdline up to cmd.Run (extract.go:348-399).  The
\* environment gives SELFEXTRACT_EXTRACT_ONLY and the count of arguments of
\* this invocation.
Startup(p) ==
    /\ se[p].pc \notin {"idle", "exited"} /\ se[p].st = "start"
    /\ LET r == se[p]
           tree == TreeOf(r.extractDir)
           send(why, c) == [r EXCEPT !.st = "send", !.code = c, !.ran = why]
       IN \E extractOnly \in BOOLEAN, nargs \in {0, 1}, fault \in {"none", "open", "read", "start"} :
            se' = [se EXCEPT ![p] =
              IF extractOnly THEN send("extractonly", 0)
              ELSE IF ~(disk[r.extractDir].exists /\ cmdlineName \in DOMAIN tree)
              THEN Die([r EXCEPT !.ran = "nocmdline"], "startup")
              ELSE IF fault \in {"open", "read"}
              THEN send(fault, 1)
              ELSE LET split == ShlexSplit(TrimSpace(tree[cmdlineName].data))
                   IN IF split.err THEN send("split", 1)
                      ELSE IF split.args + nargs = 0
                      THEN [r EXCEPT !.pc = "exited", !.status = 2, !.how = "panic", !.ran = "noargs"]
                      ELSE IF fault = "start" THEN send("start", 1)
                      ELSE [r EXCEPT !.st = "child", !.ran = "child"]]
    /\ UNCHANGED <<disk, done>>
    /\ UNCHANGED <<buildVars, scanVars, probeVars>>

\* cmd.Run returns (extract.go:399-410)
ChildExit(p) ==
    /\ se[p].pc \notin {"idle", "exited"} /\ se[p].st = "child"
    /\ \E c \in ChildCodes :
        se' = [se EXCEPT ![p].st = "send", ![p].code = c,
                         ![p].ran = IF c = -1 THEN "signaled" ELSE "exit"]
    /\ UNCHANGED <<disk, done>>
    /\ UNCHANGED <<buildVars, scanVars, probeVars>>

\* exit := <-se.exitCode (extract.go:98): the send of the startup goroutine
\* or of the signal goroutine is received
Receive(p) ==
    /\ se[p].pc = "wait"
    /\ \/ /\ se[p].st = "send"
          /\ se' = [se EXCEPT ![p].pc = "cleanup", ![p].st = "sent", ![p].recvs = @ + 1,
                              ![p].exit = se[p].code, ![p].from = "startup"]
       \/ /\ se[p].sig = "send"
          /\ se' = [se EXCEPT ![p].pc = "cleanup", ![p].sig = "sent", ![p].recvs = @ + 1,
                              ![p].exit = 2, ![p].from = "signal"]
    /\ UNCHANGED <<disk, done>>
    /\ UNCHANGED <<buildVars, scanVars, probeVars>>

\* se.cleanup() and os.Exit(exit) (extract.go:99-100, 413-418); what
\* os.RemoveAll returns is dropped
CleanupExit(p) ==
    /\ se[p].pc = "cleanup"
    /\ LET r == se[p]
       IN /\ \/ /\ r.tempDir
                /\ disk' = [disk EXCEPT ![r.extractDir] = NoDir]
                /\ se' = [se EXCEPT ![p].pc = "exited", ![p].how = "exit", ![p].status = r.exit % 256]
             \/ /\ r.tempDir
                /\ UNCHANGED disk
                /\ se' = [se EXCEPT ![p].pc = "exited", ![p].how = "exit", ![p].status = r.exit % 256,
                                    ![p].faulted = TRUE, ![p].cleanFailed = TRUE]
             \/ /\ ~r.tempDir
                /\ UNCHANGED disk
                /\ se' = [se EXCEPT ![p].pc = "exited", ![p].how = "exit", ![p].status = r.exit % 256]
    /\ UNCHANGED done
    /\ UNCHANGED <<buildVars, scanVars, probeVars>>

\* The process is gone; the next run gets fresh names from os.MkdirTemp, so
\* the generated directories of this run are no longer looked at.
Reap(p) ==
    /\ se[p].pc = "exited"
    /\ se' = [se EXCEPT ![p] = IdleProc]
    /\ disk' = [disk EXCEPT !["tmp"] = NoDir, !["exe"] = NoDir]
    /\ UNCHANGED done
    /\ UNCHANGED <<buildVars, scanVars, probeVars>>

\* what SELFEXTRACT_DIR can name before the first run: nothing, a file, an
\* empty directory, a directory with a file of somebody else
UserDirs ==
    {NoDir,
     [exists |-> TRUE, isdir |-> FALSE, tree |-> EmptyTree],
     DirOf(EmptyTree),
     DirOf(<<"f">> :> RegNode(420, <<9>>))}

RunIdle ==
    /\ se = [p \in Procs |-> IdleProc]
    /\ done = 0
    /\ disk \in [Slots -> {NoDir}]

Run(p) ==
    \/ StartRun(p) \/ PrepareTemp(p) \/ PrepareUser(p) \/ CleanupStep(p)
    \/ ExtractSkip(p) \/ ExtractEntry(p) \/ ExtractTarError(p) \/ CreateKeyFile(p)
    \/ Signal(p) \/ GraceOver(p) \/ Startup(p) \/ ChildExit(p)
    \/ Receive(p) \/ CleanupExit(p) \/ Reap(p)

\* ------------------------------------------------------------- parseSelf

\* kind: "nopayload" (nil, nil), "payload" (a reader of size bytes from start,
\* and the key), "fatal" (die: err says why); seek is where the trailer was
\* read from.
NoResult == [kind |-> "none", err |-> "", key |-> <<>>, size |-> 0, start |-> 0, seek |-> 0]

\* One turn of the read loop (main.go:121-139): a block is read at the read
\* position; at end of file the search has failed (bufFull) and parseSelf
\* returns nil, nil; a read error is fatal; a block holding the boundary
\* ends the search; any other block adds scanBlockSize to bdyOff.
ScanBlock ==
    /\ spc = "scan"
    /\ LET n == Min(scanBlockSize, Len(self) - rpos)
           buf == Slice(self, rpos, rpos + n)
           bOff == Index(buf, generateBoundary)
       IN \/ /\ n = 0
             /\ spc' = "done"
             /\ parsed' = [NoResult EXCEPT !.kind = "nopayload"]
             /\ UNCHANGED <<rpos, bdyOff>>
          \/ /\ n > 0
             /\ bOff >= 0
             /\ bdyOff' = bdyOff + bOff
             /\ rpos' = rpos + n
             /\ spc' = "trailer"
             /\ UNCHANGED parsed
          \/ /\ n > 0
             /\ bOff < 0
             /\ bdyOff' = bdyOff + scanBlockSize
             /\ rpos' = rpos + n
             /\ UNCHANGED <<spc, parsed>>
    /\ UNCHANGED phase
    /\ UNCHANGED buildVars
    /\ UNCHANGED <<runVars, probeVars>>

\* self.Read fails with an error other than io.EOF (main.go:129-131, 152-154)
ScanReadError ==
    /\ spc \in {"scan", "trailer"}
    /\ spc' = "done"
    /\ parsed' = [NoResult EXCEPT !.kind = "fatal", !.err = "read"]
    /\ UNCHANGED <<rpos, bdyOff, phase>>
    /\ UNCHANGED buildVars
    /\ UNCHANGED <<runVars, probeVars>>

\* The trailer (main.go:149-168): seek behind the boundary, one Read of
\* keyLength+8 bytes into a zeroed buffer.  Read returns the bytes there
\* are, and io.EOF only when there are none; the count is not looked at.
ReadTrailer ==
    /\ spc = "trailer"
    /\ LET pos == bdyOff + Len(generateBoundary)
           n == Min(keyLength + sizeLength, IF pos > Len(self) THEN 0 ELSE Len(self) - pos)
           buf == Slice(self, pos, pos + n) \o Zeros(keyLength + sizeLength - n)
           key == Slice(buf, 0, keyLength)
           rawValue == Uint(Slice(buf, keyLength, keyLength + sizeLength))
       IN /\ spc' = "done"
          /\ rpos' = IF pos > Len(self) THEN pos ELSE pos + n
          /\ parsed' =
               IF n = 0 \/ rawValue = sentinel
               THEN [NoResult EXCEPT !.kind = "fatal", !.seek = pos,
                                     !.err = IF n = 0 THEN "eof" ELSE "size"]
               ELSE [kind |-> "payload", err |-> "", key |-> key, size |-> rawValue,
                     start |-> pos + n, seek |-> pos]
    /\ UNCHANGED <<bdyOff, phase>>
    /\ UNCHANGED buildVars
    /\ UNCHANGED <<runVars, probeVars>>

parseSelf == ScanBlock \/ ScanReadError \/ ReadTrailer

\* ---------------------------------------------------------------- create

\* A write of data to the end of out: all of it, or, when the write fails,
\* some of it, and then the builder dies.
WriteStep(data, next) ==
    \E n \in 0..Len(data) :
        /\ out' = out \o Slice(data, 0, n)
        /\ IF n = Len(data)
           THEN cpc' = next /\ cst' = cst /\ failed' = failed
           ELSE cst' = "died" /\ cpc' = cpc /\ failed' = TRUE

\* a step that does not write: it succeeds or the builder dies
PlainStep(next) ==
    \/ cpc' = next /\ cst' = cst /\ failed' = failed
    \/ cst' = "died" /\ cpc' = cpc /\ failed' = TRUE

\* main.go:36-52, extract.go:434-441: a binary without payload acts as the
\* builder; no input files, or an output file that cannot be opened, is
\* fatal; the output file is created empty.
CreateOpen ==
    /\ phase = "builder" /\ spc = "done" /\ parsed.kind = "nopayload"
    /\ cst = "idle"
    /\ \/ /\ cst' = "running" /\ cpc' = "stub"
          /\ out' = <<>> /\ outPerm' = 438
          /\ UNCHANGED failed
       \/ /\ cst' = "died"
          /\ failed' = TRUE
          /\ UNCHANGED <<cpc, out, outPerm>>
    /\ UNCHANGED <<stub, self, pending, offset, payload_end>>
    /\ UNCHANGED scanVars
    /\ UNCHANGED <<runVars, probeVars>>

\* extract.go:443-446
CreateCopyStub ==
    /\ cst = "running" /\ cpc = "stub"
    /\ WriteStep(stub, "boundary")
    /\ UNCHANGED <<stub, self, outPerm, pending, offset, payload_end>>
    /\ UNCHANGED scanVars
    /\ UNCHANGED <<runVars, probeVars>>

\* extract.go:448-451
CreateWriteBoundary ==
    /\ cst = "running" /\ cpc = "boundary"
    /\ WriteStep(generateBoundary, "key")
    /\ UNCHANGED <<stub, self, outPerm, pending, offset, payload_end>>
    /\ UNCHANGED scanVars
    /\ UNCHANGED <<runVars, probeVars>>

\* extract.go:453-456, main.go:83-90
CreateWriteKey ==
    /\ cst = "running" /\ cpc = "key"
    /\ \E k \in Keys : WriteStep(k, "placeholder")
    /\ UNCHANGED <<stub, self, outPerm, pending, offset, payload_end>>
    /\ UNCHANGED scanVars
    /\ UNCHANGED <<runVars, probeVars>>

\* extract.go:458-461
CreateWritePlaceholder ==
    /\ cst = "running" /\ cpc = "placeholder"
    /\ WriteStep(placeholder, "offset")
    /\ UNCHANGED <<stub, self, outPerm, pending, offset, payload_end>>
    /\ UNCHANGED scanVars
    /\ UNCHANGED <<runVars, probeVars>>

\* extract.go:463-473: the payload starts at the current offset; the zstd
\* and tar writers are opened.  The (non-empty) list of input paths is drawn
\* here, where it is first used.
CreateTell ==
    /\ cst = "running" /\ cpc = "offset"
    /\ PlainStep("walk")
    /\ offset' = Len(out)
    /\ \E files \in InputLists \ {<<>>} : pending' = Walk(BaseDir(<<112>>), files)
    /\ UNCHANGED <<stub, self, out, outPerm, payload_end>>
    /\ UNCHANGED scanVars
    /\ UNCHANGED <<runVars, probeVars>>

\* extract.go:475-534: one entry of the walk, its header and its content
CreateWriteEntry ==
    /\ cst = "running" /\ cpc = "walk" /\ pending # <<>>
    /\ WriteStep(TarBytes(Head(pending)), "walk")
    /\ pending' = Tail(pending)
    /\ UNCHANGED <<stub, self, outPerm, offset, payload_end>>
    /\ UNCHANGED scanVars
    /\ UNCHANGED <<runVars, probeVars>>

\* extract.go:536-543
CreateCloseTar ==
    /\ cst = "running" /\ cpc = "walk" /\ pending = <<>>
    /\ WriteStep(TarEnd, "endoff")
    /\ UNCHANGED <<stub, self, outPerm, pending, offset, payload_end>>
    /\ UNCHANGED scanVars
    /\ UNCHANGED <<runVars, probeVars>>

\* extract.go:545-548
CreateEndOffset ==
    /\ cst = "running" /\ cpc = "endoff"
    /\ PlainStep("seekback")
    /\ payload_end' = Len(out)
    /\ UNCHANGED <<stub, self, out, outPerm, pending, offset>>
    /\ UNCHANGED scanVars
    /\ UNCHANGED <<runVars, probeVars>>

\* extract.go:550-553
CreateSeekBack ==
    /\ cst = "running" /\ cpc = "seekback"
    /\ PlainStep("patch")
    /\ UNCHANGED <<stub, self, out, outPerm, pending, offset, payload_end>>
    /\ UNCHANGED scanVars
    /\ UNCHANGED <<runVars, probeVars>>

\* extract.go:555-557: the length is written over the placeholder; what
\* f.Write returns is dropped, so a failed or short write goes unnoticed.
CreatePatch ==
    /\ cst = "running" /\ cpc = "patch"
    /\ \E n \in 0..sizeLength :
        LET buffer == PutUint(payload_end - offset)
            at == offset - sizeLength
        IN /\ out' = Slice(out, 0, at) \o Slice(buffer, 0, n) \o Slice(out, at + n, Len(out))
           /\ failed' = (failed \/ n < sizeLength)
    /\ cpc' = "chmod"
    /\ UNCHANGED <<stub, self, outPerm, cst, pending, offset, payload_end>>
    /\ UNCHANGED scanVars
    /\ UNCHANGED <<runVars, probeVars>>

\* extract.go:559-562
CreateChmod ==
    /\ cst = "running" /\ cpc = "chmod"
    /\ PlainStep("close")
    /\ outPerm' = IF cst' = "running" THEN 493 ELSE outPerm
    /\ UNCHANGED <<stub, self, out, pending, offset, payload_end>>
    /\ UNCHANGED scanVars
    /\ UNCHANGED <<runVars, probeVars>>

\* extract.go:563-567
CreateClose ==
    /\ cst = "running" /\ cpc = "close"
    /\ \/ cst' = "done" /\ failed' = failed
       \/ cst' = "died" /\ failed' = TRUE
    /\ UNCHANGED <<stub, self, out, outPerm, cpc, pending, offset, payload_end>>
    /\ UNCHANGED scanVars
    /\ UNCHANGED <<runVars, probeVars>>

\* the builder is killed (a signal, a power cut) between two steps
Interrupt ==
    /\ cst = "running"
    /\ cst' = "killed"
    /\ UNCHANGED <<stub, self, out, outPerm, cpc, pending, offset, payload_end, failed>>
    /\ UNCHANGED scanVars
    /\ UNCHANGED <<runVars, probeVars>>

create ==
    \/ CreateOpen \/ CreateCopyStub \/ CreateWriteBoundary \/ CreateWriteKey
    \/ CreateWritePlaceholder \/ CreateTell \/ CreateWriteEntry \/ CreateCloseTar
    \/ CreateEndOffset \/ CreateSeekBack \/ CreatePatch \/ CreateChmod \/ CreateClose

\* The file create left on disk is executed: openSelf opens it and
\* parseSelf scans it from offset 0 (main.go:31-34).
RunOutput ==
    /\ phase = "builder"
    /\ cst \in {"done", "died", "killed"} /\ outPerm # 0
    /\ phase' = "output"
    /\ self' = out
    /\ spc' = "scan" /\ rpos' = 0 /\ bdyOff' = 0 /\ parsed' = NoResult
    /\ UNCHANGED <<stub, out, outPerm, cst, cpc, pending, offset, payload_end, failed>>
    /\ UNCHANGED <<runVars, probeVars>>

\* main.go:36-39, extract.go:88-94: parseSelf has returned a payload and
\* main calls extract, which starts the signal goroutine and goes on to
\* prepareExtractDir.  The run itself is followed in Spec.
MainExtract ==
    /\ spc = "done" /\ parsed.kind = "payload"
    /\ se[1].pc = "idle"
    /\ se' = [se EXCEPT ![1].pc = "prepare", ![1].sig = "wait"]
    /\ UNCHANGED <<disk, done>>
    /\ UNCHANGED <<buildVars, scanVars, probeVars>>

\* the stubs: executables of every length up to MaxStub, free of the boundary
Stubs == {[i \in 1..n |-> 127] : n \in 0..MaxStub}

BuildIdle ==
    /\ out = <<>> /\ outPerm = 0 /\ cst = "idle" /\ cpc = "open"
    /\ pending = <<>> /\ offset = 0 /\ payload_end = 0 /\ failed = FALSE

\* no probe of its own is under way
ProbeIdle == probeTable = <<>> /\ probePath = <<>> /\ probeResult = "none"

InitBuild ==
    /\ RunIdle
    /\ stub \in Stubs
    /\ self = stub
    /\ BuildIdle
    /\ ProbeIdle
    /\ phase = "builder"
    /\ spc = "scan" /\ rpos = 0 /\ bdyOff = 0 /\ parsed = NoResult

NextBuild == parseSelf \/ create \/ Interrupt \/ RunOutput \/ MainExtract

vars == <<buildVars, scanVars, runVars, probeVars>>

SpecBuild == InitBuild /\ [][NextBuild]_vars

\* ------------------------------------------- runs, one process at a time

Init ==
    /\ se = [p \in Procs |-> IdleProc]
    /\ done = 0
    /\ \E u \in UserDirs : disk = [s \in Slots |-> IF s = "user" THEN u ELSE NoDir]
    /\ stub = <<>> /\ self = <<>>
    /\ BuildIdle
    /\ ProbeIdle
    /\ phase = "builder"
    /\ spc = "done" /\ rpos = 0 /\ bdyOff = 0 /\ parsed = NoResult

Next == \E p \in {1} : Run(p)

Spec == Init /\ [][Next]_vars

\* The runs under the scheduling of the Go runtime: a sleep comes to its
\* end, a receive with a sender ready is made, and the main flow, once it
\* has received, gets to os.Exit.  Nothing is assumed of the child.
Fairness ==
    \A p \in {1} :
        /\ WF_vars(GraceOver(p))
        /\ WF_vars(Receive(p))
        /\ WF_vars(CleanupExit(p))

SpecLive == Init /\ [][Next]_vars /\ Fairness

\* ------------------------------- two runs of one archive, side by side

\* Two processes have been started on the same archive with
\* SELFEXTRACT_DIR naming the same empty directory; both are about to call
\* prepareExtractDir.
InitTwo ==
    /\ done = 0
    /\ disk = [s \in Slots |-> IF s = "user" THEN DirOf(EmptyTree) ELSE NoDir]
    /\ \E k \in ArchiveIds :
          se = [p \in Procs |->
                  [IdleProc EXCEPT !.pc = "prepare", !.arch = k, !.envDir = TRUE, !.mounts = 1,
                                   !.sig = "wait", !.startDir = DirOf(EmptyTree),
                                   !.startEmpty = TRUE]]
    /\ stub = <<>> /\ self = <<>>
    /\ BuildIdle
    /\ ProbeIdle
    /\ phase = "builder"
    /\ spc = "done" /\ rpos = 0 /\ bdyOff = 0 /\ parsed = NoResult

\* the steps of one of the two, to its exit
RunTwo(p) ==
    \/ PrepareUser(p) \/ CleanupStep(p)
    \/ ExtractSkip(p) \/ ExtractEntry(p) \/ ExtractTarError(p) \/ CreateKeyFile(p)
    \/ Signal(p) \/ GraceOver(p) \/ Startup(p) \/ ChildExit(p)
    \/ Receive(p) \/ CleanupExit(p)

NextTwo == \E p \in Procs : RunTwo(p)

SpecTwo == InitTwo /\ [][NextTwo]_vars

\* ------------------------------------------- checkExecutable on its own

\* longest mount table probed
MaxMounts == 3

\* the mount points and option lists of the entries of /proc/mounts:
\* "/", "/t", "/t/s", "/tm"; rw, rw with noexec, and an option that only
\* holds the word noexec
MountPoints ==
    {<<"/">>, <<"/", "t">>, <<"/", "t", "/", "s">>, <<"/", "t", "m">>}

MountOptions == {<<"rw">>, <<"rw", "noexec">>, <<"nonoexec">>}

MountEntries == {[mountpoint |-> m, options |-> o] : m \in MountPoints, o \in MountOptions}

\* the tables: every list of up to MaxMounts entries
ProbeTables == SeqsUpTo(MountEntries, MaxMounts)

\* the paths probed: "/t/s/d", "/o", "/t", "/tm", "/" and "/t/s"
ProbePaths ==
    {<<"/", "t", "/", "s", "/", "d">>, <<"/", "o">>, <<"/", "t">>,
     <<"/", "t", "m">>, <<"/">>, <<"/", "t", "/", "s">>}

InitProbe ==
    /\ RunIdle
    /\ stub = <<>> /\ self = <<>>
    /\ BuildIdle
    /\ phase = "builder"
    /\ spc = "done" /\ rpos = 0 /\ bdyOff = 0 /\ parsed = NoResult
    /\ probeTable \in ProbeTables
    /\ probePath \in ProbePaths
    /\ probeResult = "none"

\* checkExecutable(path) is called (extract.go:33-86)
Probe ==
    /\ probeResult = "none"
    /\ probeResult' = IF checkExecutable(probePath, probeTable) THEN "true" ELSE "false"
    /\ UNCHANGED <<probeTable, probePath>>
    /\ UNCHANGED <<buildVars, scanVars, runVars>>

NextProbe == Probe

SpecProbe == InitProbe /\ [][NextProbe]_vars

\* ------------------------------------------------- claims on the envelope

\* C2: whenever parseSelf has finished on a file that holds the boundary
\* (first at offset b) and no read failed, it did not report "no payload"
\* and it read the trailer at b + len(boundary), wherever the boundary lies
\* relative to the read blocks.
C2_MarkerFoundAnywhere ==
    (spc = "done" /\ parsed.err # "read" /\ Index(self, generateBoundary) >= 0)
        => /\ parsed.kind # "nopayload"
           /\ parsed.seek = Index(self, generateBoundary) + boundaryLength

\* the steps of create that come before the length field is patched
PrePatchSteps ==
    {"stub", "boundary", "key", "placeholder", "offset", "walk", "endoff", "seekback", "patch"}

\* C3: parseSelf on the output of a build that stopped (killed, or died on
\* an error) before the length was patched never returns a payload reader
\* and key.
C3_CrashedBuildNeverExtracted ==
    (phase = "output" /\ spc = "done" /\ cst \in {"killed", "died"} /\ cpc \in PrePatchSteps)
        => parsed.kind # "payload"

\* C12: parseSelf on a file whose first boundary lies beyond
\* maxBoundaryOffset reports "no payload", and the scan never reads beyond
\* the block that holds the ceiling.
C12_ScanStopsAtCeiling ==
    /\ (spc = "done" /\ parsed.err # "read" /\ Index(self, generateBoundary) > maxBoundaryOffset)
            => parsed.kind = "nopayload"
    /\ spc = "scan" => rpos <= maxBoundaryOffset + scanBlockSize

\* C13: when create has returned without dying, the output file is the
\* stub, the boundary, a key, the length and the payload, and the length is
\* the count of the payload's bytes and not the sentinel.
C13_OutputLayout ==
    cst = "done"
        => \E k \in Keys :
              LET payload == Slice(out, offset, Len(out))
                  field == Slice(out, offset - sizeLength, offset)
              IN /\ offset = Len(stub) + boundaryLength + keyLength + sizeLength
                 /\ payload_end = Len(out)
                 /\ out = stub \o generateBoundary \o k \o PutUint(Len(payload)) \o payload
                 /\ field # placeholder

\* parseSelf found a boundary and the length field behind the key, all of
\* it in the file, holds the placeholder
SentinelRead ==
    /\ spc = "done" /\ parsed.err # "read" /\ parsed.kind # "nopayload"
    /\ parsed.seek + keyLength + sizeLength <= Len(self)
    /\ Slice(self, parsed.seek + keyLength, parsed.seek + keyLength + sizeLength) = placeholder

\* C14: when the length field read holds the sentinel, parseSelf has died
\* on it: no reader was made, nothing was read behind the trailer, extract
\* was not called and no directory exists.
C14_SentinelIsFatal ==
    SentinelRead
        => /\ parsed.kind = "fatal" /\ parsed.err = "size"
           /\ parsed.start = 0 /\ parsed.size = 0
           /\ rpos = parsed.seek + keyLength + sizeLength
           /\ \A p \in Procs : se[p].pc = "idle"
           /\ \A s \in Slots : ~disk[s].exists

\* the output of a build killed while it wrote the payload has been run
C14_Witness ==
    SentinelRead /\ phase = "output" /\ cst = "killed" /\ cpc = "walk" /\ parsed.kind = "fatal"

\* C19: create has not returned normally when one of its I/O calls failed,
\* and an output it completed does not hold the sentinel as its length.
C19_IOErrorIsFatal ==
    cst = "done"
        => /\ ~failed
           /\ Uint(Slice(out, offset - sizeLength, offset)) # Uint(placeholder)

\* ------------------------------------------- claims on the extraction dir

\* C1: whenever SELFEXTRACT_DIR holds a key file with the hex key of an
\* archive, every entry of that archive's payload is in the directory.
C1_KeyFileImpliesComplete ==
    \A k \in ArchiveIds :
        (disk["user"].exists /\ HasKey(TreeOf("user"), EncodeToString(KeyOf(k))))
            => \A i \in 1..Len(Payload(k)) : Payload(k)[i].name \in DOMAIN TreeOf("user")

\* what an entry of the source tree must have become in the extraction dir
Reproduced(src, got) ==
    CASE src.type = "reg" -> got.type = "reg" /\ got.data = src.data /\ got.perm = src.perm
      [] src.type = "symlink" -> got.type = "symlink" /\ got.target = src.target
      [] OTHER -> got.type = "dir" /\ got.perm = 493

\* the paths of the base directory that a list of input paths names
Named(tree, files) ==
    {q \in DOMAIN tree : \E i \in 1..Len(files) : q = files[i] \/ IsUnder(q, files[i])}

\* C4: a run of an archive into an empty (or new) directory, with no I/O
\* fault, does not die while extracting, and once extraction is over every
\* file, symlink and directory named by the input paths is reproduced:
\* bytes and mode, target, presence with mode 0755.
C4_RoundTrip ==
    \A p \in Procs :
        LET r == se[p]
            src == BaseDir(Archives[r.arch].cmd)
            got == TreeOf(r.extractDir)
        IN (r.pc # "idle" /\ r.startEmpty /\ ~r.faulted)
            => /\ ~(r.pc = "exited" /\ r.how = "fatal" /\ r.diedAt \in {"extract", "tar", "keyfile"})
               /\ r.pc \in {"wait", "cleanup"}
                    => \A q \in Named(src, Archives[r.arch].files) :
                          q \in DOMAIN got /\ Reproduced(src[q], got[q])

\* C5: a run that starts on SELFEXTRACT_DIR holding the completed
\* extraction of its own archive leaves the directory as it found it, and,
\* unless it dies reading the key file, sets skipExtract and writes nothing.
C5_SecondRunSkips ==
    \A p \in Procs :
        LET r == se[p]
        IN r.hit
            => /\ disk["user"] = r.startDir
               /\ (r.pc \in {"extract", "wait", "cleanup"} \/ (r.pc = "exited" /\ r.diedAt # "prepare"))
                    => (r.skipExtract /\ ~r.wrote /\ ~r.extracted)

\* a second run of the same archive has gone all the way to its exit
C5_Witness ==
    \E p \in Procs :
        se[p].hit /\ se[p].skipExtract /\ se[p].pc = "exited" /\ se[p].how = "exit"

\* The tree a payload stands for: its entries, the last of a name winning,
\* directories with mode 0755, and the directories above them.
PayloadTree(entries) ==
    LET names == {entries[i].name : i \in 1..Len(entries)}
        last(q) == entries[CHOOSE i \in 1..Len(entries) :
                              /\ entries[i].name = q
                              /\ \A j \in 1..Len(entries) : entries[j].name = q => j <= i]
        node(q) == IF q \notin names THEN DirNode(493)
                   ELSE CASE last(q).typeflag = "reg" -> RegNode(last(q).perm, last(q).data)
                          [] last(q).typeflag = "symlink" -> LinkNode(last(q).linkname)
                          [] OTHER -> DirNode(493)
    IN [q \in UNION {Chain(n) : n \in names} |-> node(q)]

\* C6: a run that finds in SELFEXTRACT_DIR the key file of another archive
\* starts extracting into an emptied directory, and when its extraction is
\* over the directory holds exactly the tree of its payload and its key file.
C6_MismatchReextracts ==
    \A p \in Procs :
        LET r == se[p]
        IN r.mismatch
            => /\ (r.pc = "extract" /\ r.next = 1) => TreeOf("user") = EmptyTree
               /\ r.extracted
                    => TreeOf("user") =
                         Put(PayloadTree(Payload(r.arch)), keyFileName,
                             RegNode(420, EncodeToString(KeyOf(r.arch))))

\* a run on another archive's directory has extracted its own payload
C6_Witness ==
    \E p \in Procs :
        /\ se[p].mismatch /\ se[p].extracted /\ se[p].pc = "wait"
        /\ DOMAIN se[p].startDir.tree \ DOMAIN TreeOf("user") # {}

\* C7: a run that dies after extraction has written something and before
\* the key file is written has emptied the extraction directory (given that
\* no removal failed).
C7_FatalLeavesEmptyDir ==
    \A p \in Procs :
        LET r == se[p]
        IN (r.pc = "exited" /\ r.how = "fatal" /\ r.diedAt \in {"extract", "tar"}
                /\ r.wrote /\ ~r.cleanFailed)
            => disk[r.extractDir].exists /\ TreeOf(r.extractDir) = EmptyTree

\* C8: when a run with a generated directory has exited, however it did,
\* the directory is gone (given that no removal failed); SELFEXTRACT_DIR is
\* never removed.
C8_EphemeralDirRemoved ==
    \A p \in Procs :
        LET r == se[p]
        IN /\ (r.pc = "exited" /\ r.tempDir /\ ~r.cleanFailed) => ~disk[r.extractDir].exists
           /\ (r.pc # "idle" /\ r.envDir /\ r.startDir.exists) => disk["user"].exists

\* C9: a run that exits without having received a signal exits with the
\* child's exit code when the child exited, and with 1 when the command
\* line could not be read or split or the child could not be started; a
\* child runs only after extraction or the cache hit.
C9_ExitCodePropagated ==
    \A p \in Procs :
        LET r == se[p]
        IN /\ (r.pc = "exited" /\ r.sig = "wait" /\ r.ran = "exit") => r.status = r.code
           /\ (r.pc = "exited" /\ r.sig = "wait" /\ r.ran \in {"open", "read", "split", "start", "noargs"})
                => r.status = 1
           /\ r.st = "child" => (r.extracted \/ r.skipExtract)

\* the path of a slot's directory, and of the directory it was made in
SlotParent(slot) == IF slot = "tmp" THEN TempDir ELSE IF slot = "exe" THEN ExeDir ELSE EnvDirPath

\* C10 as claimed: every directory a run gets past prepareExtractDir with,
\* SELFEXTRACT_DIR included, is on a filesystem the probe finds executable.
C10_EveryDirExecutable ==
    \A p \in Procs :
        LET r == se[p]
        IN (r.pc \notin {"idle", "prepare"} /\ r.diedAt # "prepare")
            => checkExecutable(SlotParent(r.extractDir), MountTables[r.mounts])

\* C10, amended: a run without SELFEXTRACT_DIR gets past prepareExtractDir
\* only with a directory generated in the temp directory or the executable's
\* directory, whichever the probe found executable (the temp directory
\* first).
C10_GeneratedDirExecutable ==
    \A p \in Procs :
        LET r == se[p]
            table == MountTables[r.mounts]
        IN (~r.envDir /\ r.pc \notin {"idle", "prepare"} /\ r.diedAt # "prepare")
            => /\ r.tempDir /\ r.extractDir \in {"tmp", "exe"}
               /\ checkExecutable(SlotParent(r.extractDir), table)
               /\ r.extractDir = "exe" => ~checkExecutable(TempDir, table)

\* a run extracts into a directory generated beside the executable
C10_Witness ==
    \E p \in Procs : se[p].tempDir /\ se[p].extractDir = "exe" /\ se[p].pc = "wait"

\* ------------------------------------------------ claims on the probe

\* the mount point is the path, or a prefix of it that ends at a separator
MountMatches(e, path) ==
    \/ e.mountpoint = path
    \/ /\ Len(e.mountpoint) < Len(path)
       /\ SubSeq(path, 1, Len(e.mountpoint)) = e.mountpoint
       /\ (e.mountpoint[Len(e.mountpoint)] = "/" \/ path[Len(e.mountpoint) + 1] = "/")

\* the matching entries of a table with the longest mount point
LongestMatches(table, path) ==
    LET matching == {i \in 1..Len(table) : MountMatches(table[i], path)}
    IN {table[i] : i \in {j \in matching :
                             \A k \in matching : Len(table[k].mountpoint) <= Len(table[j].mountpoint)}}

\* C11: when entries of the table match the path, checkExecutable returns
\* true exactly when the matching entry with the longest mount point does
\* not list the option noexec (any of them, when the table repeats a mount
\* point).
C11_LongestMountWins ==
    (probeResult # "none" /\ LongestMatches(probeTable, probePath) # {})
        => \E e \in LongestMatches(probeTable, probePath) :
              (probeResult = "true") <=> (\A i \in 1..Len(e.options) : e.options[i] # "noexec")

\* "/" executable and "/t" noexec: "/t/s/d" has been probed and found not
\* executable
C11_Witness ==
    /\ probeTable = <<[mountpoint |-> <<"/", "t">>, options |-> <<"rw", "noexec">>],
                      [mountpoint |-> <<"/">>, options |-> <<"rw">>]>>
    /\ probePath = <<"/", "t", "/", "s", "/", "d">>
    /\ probeResult = "false"

\* ------------------------------------------------ claims on the hand-off

\* C15: the main flow receives from se.exitCode at most once; what it
\* receives is the code of the startup goroutine or the 2 of the signal
\* goroutine, the 2 only after a signal and the grace period; and a process
\* whose main flow has received exits with the code received.
C15_ExitHandedOffOnce ==
    \A p \in Procs :
        LET r == se[p]
        IN /\ r.recvs <= 1
           /\ r.from = "startup" => (r.recvs = 1 /\ r.exit = r.code /\ r.st = "sent")
           /\ r.from = "signal" => (r.recvs = 1 /\ r.exit = 2 /\ r.sig = "sent" /\ r.graced)
           /\ (r.pc = "exited" /\ r.recvs = 1) => r.status = r.exit % 256

\* C16: while the child runs the main flow has not exited, and the
\* extraction directory is there with its key file.
C16_DirKeptWhileChildRuns ==
    \A p \in Procs :
        LET r == se[p]
        IN r.st = "child"
            => /\ r.pc \in {"wait", "cleanup"}
               /\ disk[r.extractDir].exists
               /\ HasKey(TreeOf(r.extractDir), EncodeToString(KeyOf(r.arch)))

\* C17: with two processes running one archive on one directory, the
\* directory holds the archive's key file only when it holds every entry of
\* the payload.
C17_KeyImpliesCompleteTwo ==
    \A p \in Procs :
        HasKey(TreeOf("user"), EncodeToString(KeyOf(se[p].arch)))
            => \A i \in 1..Len(Payload(se[p].arch)) :
                  Payload(se[p].arch)[i].name \in DOMAIN TreeOf("user")

\* C18: nothing is received from se.exitCode while prepareExtractDir and
\* extract are at work, and a process that has got a signal and has come
\* to the end of extraction exits in the end, whatever its child does.
C18_SignalTerminates ==
    /\ [](\A p \in Procs : se[p].pc \in {"prepare", "wipe", "extract"} => se[p].recvs = 0)
    /\ \A p \in Procs :
          (se[p].sig \in {"grace", "send"} /\ se[p].pc = "wait") ~> (se[p].pc = "exited")

\* a signal came during extraction, the child is still running, and the
\* process has exited with the 2 of the signal goroutine
C18_Witness ==
    \E p \in Procs :
        /\ se[p].pc = "exited" /\ se[p].how = "exit" /\ se[p].from = "signal"
        /\ se[p].st = "child" /\ se[p].status = 2

\* ------------------------------------------- claims on foreign contents

\* the run started on SELFEXTRACT_DIR naming a directory that is not empty
\* and holds no key file
StartedUnkeyed(r) ==
    /\ r.envDir /\ r.startDir.exists /\ r.startDir.isdir
    /\ r.startDir.tree # EmptyTree
    /\ keyFileName \notin DOMAIN r.startDir.tree

\* C20: a run on a directory that is not empty and holds no key file dies
\* in prepareExtractDir with the directory as it was, nothing extracted and
\* no child started; and a run of which an entry that was there at its
\* start is gone is a run that found a key file of another archive.
C20_UnkeyedDirIsFatal ==
    \A p \in Procs :
        LET r == se[p]
        IN /\ (StartedUnkeyed(r) /\ r.pc \notin {"idle", "prepare"})
                => /\ r.pc = "exited" /\ r.how = "fatal" /\ r.diedAt = "prepare"
                   /\ disk["user"] = r.startDir
                   /\ ~r.wrote /\ ~r.extracted /\ r.st = "off"
           /\ (r.pc # "idle" /\ r.envDir
                  /\ \E q \in DOMAIN r.startDir.tree : q \notin DOMAIN TreeOf("user"))
                => r.mismatch

\* a run has died on a directory holding somebody else's file
C20_Witness ==
    \E p \in Procs :
        /\ StartedUnkeyed(se[p]) /\ se[p].pc = "exited" /\ ~se[p].faulted
        /\ <<"f">> \in DOMAIN TreeOf("user")

====
